---- MODULE Spec2Model ----
(***************************************************************************)
(* Budgeting API (src/main.py, src/schemas.py): three collections of a     *)
(* document store (category, transaction, budget), create and list         *)
(* handlers, and the monthly summary.                                      *)
(*                                                                         *)
(* Strings that the code parses or formats (month and date arguments,      *)
(* ids, ISO timestamps) are sequences of one-character strings; strings    *)
(* the code only compares (names, colours, category ids, types) are TLA+   *)
(* strings.  An Optional value is a sequence of length 0 (None) or 1.      *)
(***************************************************************************)
EXTENDS Integers, Sequences, FiniteSets, TLC

VARIABLES db, resp, frames

vars == <<db, resp, frames>>

(***************************************************************************)
(* Bounds of the model.                                                    *)
(***************************************************************************)
MaxTx == 2
MaxCat == 3
MaxBud == 1
MaxTxConc == 3

None == <<>>
Some(x) == <<x>>

\* what a client receives, with the request it answers
Response(op, req, status, body) ==
  [op |-> op, req |-> req, status |-> status, body |-> body]

(***************************************************************************)
(* binary64 arithmetic.  A float is [h, l], standing for h * 2^53 + l in   *)
(* units of the smallest amount submitted (a power of two), with |l| far   *)
(* below 2^53: every integer below 2^53 is exact, and from 2^53 on the     *)
(* spacing of representable values is 2, 4, ...  FRound is IEEE 754        *)
(* round-to-nearest, ties-to-even, of the exact value h * 2^53 + l.        *)
(***************************************************************************)
F(n) == [h |-> 0, l |-> n]
BIG == [h |-> 1, l |-> 0]

RECURSIVE Pow2Floor(_)
Pow2Floor(n) == IF n <= 1 THEN 1 ELSE 2 * Pow2Floor(n \div 2)

FNeg(x) == [h |-> 0 - x.h, l |-> 0 - x.l]

FRoundPos(h, l) ==
  IF h = 0 THEN [h |-> 0, l |-> l]
  ELSE LET p == Pow2Floor(h)
           ulp == IF l < 0 /\ h = p THEN p ELSE 2 * p
           q == l \div ulp
           r == l % ulp
           up == (2 * r > ulp) \/ (2 * r = ulp /\ q % 2 = 1)
       IN [h |-> h, l |-> IF up THEN (q + 1) * ulp ELSE q * ulp]

FRound(h, l) ==
  IF h < 0 \/ (h = 0 /\ l < 0)
    THEN FNeg(FRoundPos(0 - h, 0 - l))
    ELSE FRoundPos(h, l)

FAdd(x, y) == FRound(x.h + y.h, x.l + y.l)
FSub(x, y) == FRound(x.h - y.h, x.l - y.l)
FGt0(x) == x.h > 0 \/ (x.h = 0 /\ x.l > 0)

RECURSIVE py_sum_from(_, _)
py_sum_from(acc, xs) ==
  IF xs = <<>> THEN acc ELSE py_sum_from(FAdd(acc, Head(xs)), Tail(xs))

\* builtin sum(): left-to-right addition starting from 0
py_sum(xs) == py_sum_from(F(0), xs)

(***************************************************************************)
(* Characters and decimal numerals.                                        *)
(***************************************************************************)
Digits == <<"0", "1", "2", "3", "4", "5", "6", "7", "8", "9">>

IsDigit(c) == \E i \in 1..10 : Digits[i] = c
DigitVal(c) == (CHOOSE i \in 1..10 : Digits[i] = c) - 1
AllDigits(s) == \A i \in 1..Len(s) : IsDigit(s[i])

\* int() of a string of decimal digits
RECURSIVE ParseInt(_)
ParseInt(s) ==
  IF s = <<>> THEN 0
  ELSE 10 * ParseInt(SubSeq(s, 1, Len(s) - 1)) + DigitVal(s[Len(s)])

\* "%0*d": n in decimal, zero-padded to width w
RECURSIVE ZeroPad(_, _)
ZeroPad(n, w) ==
  IF w = 0 THEN <<>> ELSE Append(ZeroPad(n \div 10, w - 1), Digits[(n % 10) + 1])

\* str() of a non-negative integer
RECURSIVE IntStr(_)
IntStr(n) ==
  IF n < 10 THEN <<Digits[n + 1]>> ELSE Append(IntStr(n \div 10), Digits[(n % 10) + 1])

(***************************************************************************)
(* datetime: naive timestamps [year, month, day, hour, minute, second].    *)
(***************************************************************************)
IsLeap(y) == (y % 4 = 0) /\ ((y % 100 /= 0) \/ (y % 400 = 0))

DaysInMonth(y, m) ==
  IF m = 2 THEN (IF IsLeap(y) THEN 29 ELSE 28)
  ELSE IF m \in {4, 6, 9, 11} THEN 30 ELSE 31

\* datetime(y, m, d, hh, mm, ss): ok is FALSE where the constructor raises
\* ValueError (years run from datetime.MINYEAR = 1 to datetime.MAXYEAR = 9999)
datetime(y, m, d, hh, mm, ss) ==
  [ok |-> /\ y >= 1 /\ y <= 9999
          /\ m >= 1 /\ m <= 12
          /\ d >= 1 /\ d <= DaysInMonth(y, m)
          /\ hh >= 0 /\ hh <= 23
          /\ mm >= 0 /\ mm <= 59
          /\ ss >= 0 /\ ss <= 59,
   dt |-> [year |-> y, month |-> m, day |-> d,
           hour |-> hh, minute |-> mm, second |-> ss]]

ValueError == [ok |-> FALSE, dt |-> <<>>]

DtTuple(a) == <<a.year, a.month, a.day, a.hour, a.minute, a.second>>

RECURSIVE TupleLess(_, _)
TupleLess(a, b) ==
  IF a = <<>> THEN FALSE
  ELSE Head(a) < Head(b) \/ (Head(a) = Head(b) /\ TupleLess(Tail(a), Tail(b)))

\* a < b and a >= b on timestamps
DtLt(a, b) == TupleLess(DtTuple(a), DtTuple(b))
DtGe(a, b) == ~DtLt(a, b)

\* the time part of an ISO string: HH, HH:MM or HH:MM:SS (fractions and UTC
\* offsets are outside the modelled grammar; no input of the model has one)
ParseTime(t) ==
  LET n == Len(t)
      shape == /\ n \in {2, 5, 8}
               /\ \A i \in 1..n : IF i \in {3, 6} THEN t[i] = ":" ELSE IsDigit(t[i])
  IN IF ~shape THEN [ok |-> FALSE, hh |-> 0, mm |-> 0, ss |-> 0]
     ELSE [ok |-> TRUE,
           hh |-> ParseInt(SubSeq(t, 1, 2)),
           mm |-> IF n >= 5 THEN ParseInt(SubSeq(t, 4, 5)) ELSE 0,
           ss |-> IF n >= 8 THEN ParseInt(SubSeq(t, 7, 8)) ELSE 0]

\* datetime.fromisoformat: YYYY-MM-DD, optionally followed by one separator
\* character (any character) and a time
fromisoformat(s) ==
  IF Len(s) < 10 \/ Len(s) = 11 THEN ValueError
  ELSE IF ~(/\ AllDigits(SubSeq(s, 1, 4)) /\ s[5] = "-"
            /\ AllDigits(SubSeq(s, 6, 7)) /\ s[8] = "-"
            /\ AllDigits(SubSeq(s, 9, 10))) THEN ValueError
  ELSE LET y == ParseInt(SubSeq(s, 1, 4))
           m == ParseInt(SubSeq(s, 6, 7))
           d == ParseInt(SubSeq(s, 9, 10))
           t == IF Len(s) = 10 THEN [ok |-> TRUE, hh |-> 0, mm |-> 0, ss |-> 0]
                ELSE ParseTime(SubSeq(s, 12, Len(s)))
       IN IF ~t.ok THEN ValueError ELSE datetime(y, m, d, t.hh, t.mm, t.ss)

\* datetime.isoformat of a timestamp with zero microseconds
isoformat(a) ==
  ZeroPad(a.year, 4) \o <<"-">> \o ZeroPad(a.month, 2) \o <<"-">> \o ZeroPad(a.day, 2)
    \o <<"T">> \o ZeroPad(a.hour, 2) \o <<":">> \o ZeroPad(a.minute, 2)
    \o <<":">> \o ZeroPad(a.second, 2)

(***************************************************************************)
(* The document store.  db maps each collection to the sequence of its     *)
(* documents in insertion order; a document's _id is its ObjectId, here    *)
(* the position at which it was inserted, and str(_id) its decimal form.   *)
(***************************************************************************)
\* truth value of an Optional[str]: None and the empty string are false
Truthy(o) == o /= None /\ o[1] /= ""
TruthyChars(o) == o /= None /\ o[1] /= <<>>

\* insert(collection, document) -> id
create_document(d, coll, data) ==
  LET oid == Len(d[coll]) + 1
      doc == [k \in DOMAIN data \cup {"_id"} |-> IF k = "_id" THEN oid ELSE data[k]]
  IN [db |-> [d EXCEPT ![coll] = Append(@, doc)], id |-> IntStr(oid)]

AllDocs == [kind |-> "all"]
DateRange(start, end) == [kind |-> "date", gte |-> start, lt |-> end]
MonthIs(m) == [kind |-> "month", month |-> m]

Matches(doc, f) ==
  CASE f.kind = "all" -> TRUE
    [] f.kind = "date" -> DtGe(doc.date, f.gte) /\ DtLt(doc.date, f.lt)
    [] f.kind = "month" -> doc.month = f.month

\* find(collection, filter, limit) -> sequence of documents, in store order
get_documents(d, coll, f, limit) ==
  LET found == SelectSeq(d[coll], LAMBDA doc : Matches(doc, f))
  IN IF limit = None \/ limit[1] >= Len(found) THEN found
     ELSE SubSeq(found, 1, limit[1])

\* variant: the id is not the stored document's _id
serialize_doc_wrong_id(doc) ==
  [k \in (DOMAIN doc \ {"_id"}) \cup {"id"} |->
     IF k = "id" THEN IntStr(doc._id + 1)
     ELSE IF k = "date" THEN isoformat(doc[k])
     ELSE doc[k]]

serialize_doc(doc) ==
  [k \in (DOMAIN doc \ {"_id"}) \cup {"id"} |->
     IF k = "id" THEN IntStr(doc._id)
     ELSE IF k = "date" THEN isoformat(doc[k])
     ELSE doc[k]]

SerializeAll(docs) == [i \in 1..Len(docs) |-> serialize_doc(docs[i])]

(***************************************************************************)
(* Schemas (src/schemas.py): ok is FALSE where pydantic raises             *)
(* ValidationError.                                                        *)
(***************************************************************************)
DefaultColor == "#60a5fa"
TxTypes == {"income", "expense"}

CategorySchema(name, color) ==
  [ok |-> TRUE, data |-> [name |-> name, color |-> color]]

TransactionSchema(amount, type, category_id, note, date) ==
  [ok |-> FGt0(amount) /\ type \in TxTypes,
   data |-> [amount |-> amount, type |-> type, category_id |-> category_id,
             note |-> note, date |-> date]]

BudgetSchema(month, category_id, limit) ==
  [ok |-> FGt0(limit),
   data |-> [month |-> month, category_id |-> category_id, limit |-> limit]]

(***************************************************************************)
(* Responses.  An HTTPException gives its status and detail; an exception  *)
(* that leaves a handler uncaught is answered with 500 by the framework.   *)
(***************************************************************************)
OK(body, d) == [status |-> 200, body |-> body, db |-> d]
HTTPException(code, detail, d) == [status |-> code, body |-> detail, db |-> d]
Unhandled(d) == [status |-> 500, body |-> "Internal Server Error", db |-> d]

InvalidMonth == "Invalid month format. Use YYYY-MM"
InvalidDate == "Invalid date format. Use ISO 8601"

\* month + "-01"
FirstOf(month) == month \o <<"-", "0", "1">>

(***************************************************************************)
(* Categories                                                              *)
(***************************************************************************)
\* the request model: color falls back to the default only when the body
\* has no color key
CreateCategory(body) ==
  [name |-> body.name,
   color |-> IF body.has_color THEN body.color ELSE Some(DefaultColor)]

list_categories(d, limit) ==
  OK(SerializeAll(get_documents(d, "category", AllDocs, limit)), d)

create_category(d, body) ==
  LET payload == CreateCategory(body)
      cat == CategorySchema(payload.name, payload.color)
  IN IF ~cat.ok THEN Unhandled(d)
     ELSE LET r == create_document(d, "category", cat.data)
          IN OK([id |-> r.id], r.db)

(***************************************************************************)
(* Transactions                                                            *)
(***************************************************************************)
\* lines 128-139: the date filter of the listing
\* variant: the range end is always start.month + 1, without the December
\* rollover of lines 135-136
list_month_filter_no_rollover(month) ==
  IF ~TruthyChars(month) THEN [ok |-> TRUE, filter |-> AllDocs]
  ELSE LET s == fromisoformat(FirstOf(month[1]))
       IN IF ~s.ok THEN [ok |-> FALSE, filter |-> AllDocs]
          ELSE LET start == s.dt
                   end == datetime(start.year, start.month + 1, 1, 0, 0, 0)
               IN IF ~end.ok THEN [ok |-> FALSE, filter |-> AllDocs]
                  ELSE [ok |-> TRUE, filter |-> DateRange(start, end.dt)]

list_month_filter(month) ==
  IF ~TruthyChars(month) THEN [ok |-> TRUE, filter |-> AllDocs]
  ELSE LET s == fromisoformat(FirstOf(month[1]))
       IN IF ~s.ok THEN [ok |-> FALSE, filter |-> AllDocs]
          ELSE LET start == s.dt
                   end == IF start.month = 12
                            THEN datetime(start.year + 1, 1, 1, 0, 0, 0)
                            ELSE datetime(start.year, start.month + 1, 1, 0, 0, 0)
               IN IF ~end.ok THEN [ok |-> FALSE, filter |-> AllDocs]
                  ELSE [ok |-> TRUE, filter |-> DateRange(start, end.dt)]

list_transactions(d, month, limit) ==
  LET f == list_month_filter(month)
  IN IF ~f.ok THEN HTTPException(400, InvalidMonth, d)
     ELSE OK(SerializeAll(get_documents(d, "transaction", f.filter, limit)), d)

create_transaction(d, body, now) ==
  LET parsed == IF TruthyChars(body.date) THEN fromisoformat(body.date[1])
                ELSE [ok |-> TRUE, dt |-> now]
  IN IF ~parsed.ok THEN HTTPException(400, InvalidDate, d)
     ELSE LET tx == TransactionSchema(body.amount, body.type, body.category_id,
                                      body.note, parsed.dt)
          IN IF ~tx.ok THEN Unhandled(d)
             ELSE LET r == create_document(d, "transaction", tx.data)
                  IN OK([id |-> r.id], r.db)

(***************************************************************************)
(* Budgets                                                                 *)
(***************************************************************************)
list_budgets(d, month, limit) ==
  LET f == IF TruthyChars(month) THEN MonthIs(month[1]) ELSE AllDocs
  IN OK(SerializeAll(get_documents(d, "budget", f, limit)), d)

create_budget(d, body) ==
  IF ~fromisoformat(FirstOf(body.month)).ok THEN HTTPException(400, InvalidMonth, d)
  ELSE LET b == BudgetSchema(body.month, body.category_id, body.limit)
       IN IF ~b.ok THEN Unhandled(d)
          ELSE LET r == create_document(d, "budget", b.data)
               IN OK([id |-> r.id], r.db)

(***************************************************************************)
(* Summary                                                                 *)
(***************************************************************************)
\* a dict is the sequence of its items [k, v] in insertion order
dict_has(dict, key) == \E i \in 1..Len(dict) : dict[i].k = key

dict_get(dict, key, default) ==
  IF dict_has(dict, key)
    THEN dict[CHOOSE i \in 1..Len(dict) : dict[i].k = key].v
    ELSE default

dict_set(dict, key, value) ==
  IF dict_has(dict, key)
    THEN [i \in 1..Len(dict) |->
            IF dict[i].k = key THEN [k |-> key, v |-> value] ELSE dict[i]]
    ELSE Append(dict, [k |-> key, v |-> value])

Uncategorized == "uncategorized"

\* lines 203-212: the date filter of the summary
summary_month_filter(month) ==
  IF ~TruthyChars(month) THEN [ok |-> TRUE, filter |-> AllDocs]
  ELSE LET s == fromisoformat(FirstOf(month[1]))
       IN IF ~s.ok THEN [ok |-> FALSE, filter |-> AllDocs]
          ELSE LET start == s.dt
                   end == IF start.month = 12
                            THEN datetime(start.year + 1, 1, 1, 0, 0, 0)
                            ELSE datetime(start.year, start.month + 1, 1, 0, 0, 0)
               IN IF ~end.ok THEN [ok |-> FALSE, filter |-> AllDocs]
                  ELSE [ok |-> TRUE, filter |-> DateRange(start, end.dt)]

\* variant: the fetch keeps a limit
summary_txs_limited(d, f) == get_documents(d, "transaction", f, Some(1))

\* line 214
summary_txs(d, f) == get_documents(d, "transaction", f, None)

AmountsOfType(txs, type) ==
  LET sel == SelectSeq(txs, LAMBDA t : t.type = type)
  IN [i \in 1..Len(sel) |-> sel[i].amount]

\* line 216
summary_income(txs) == py_sum(AmountsOfType(txs, "income"))

\* line 217
summary_expenses(txs) == py_sum(AmountsOfType(txs, "expense"))

\* variant: `t.get("category_id", "uncategorized")`, no `or`
category_key_no_or(t) ==
  IF t.category_id /= None THEN t.category_id[1] ELSE Uncategorized

\* line 224
category_key(t) ==
  IF Truthy(t.category_id) THEN t.category_id[1] ELSE Uncategorized

\* variant: `spending[cid] = t["amount"]`, assignment instead of accumulation
RECURSIVE spending_loop_assigns(_, _)
spending_loop_assigns(spending, txs) ==
  IF txs = <<>> THEN spending
  ELSE LET t == Head(txs)
       IN IF t.type = "expense"
            THEN spending_loop_assigns(
                   dict_set(spending, IF Truthy(t.category_id) THEN t.category_id[1]
                                      ELSE "uncategorized", t.amount),
                   Tail(txs))
            ELSE spending_loop_assigns(spending, Tail(txs))

\* lines 221-225
RECURSIVE spending_loop(_, _)
spending_loop(spending, txs) ==
  IF txs = <<>> THEN spending
  ELSE LET t == Head(txs)
       IN IF t.type = "expense"
            THEN LET cid == category_key(t)
                 IN spending_loop(
                      dict_set(spending, cid, FAdd(dict_get(spending, cid, F(0)), t.amount)),
                      Tail(txs))
            ELSE spending_loop(spending, Tail(txs))

\* lines 216-225: everything the handler derives from the fetched txs
summary_reduce(txs) ==
  LET income == summary_income(txs)
      expenses == summary_expenses(txs)
  IN [income |-> income,
      expenses |-> expenses,
      balance |-> FSub(income, expenses),
      spending_by_category |-> spending_loop(<<>>, txs)]

\* lines 228-229
summary_budgets(d, month) ==
  LET budget_filter == IF TruthyChars(month) THEN MonthIs(month[1]) ELSE AllDocs
  IN SerializeAll(get_documents(d, "budget", budget_filter, None))

\* lines 231-237
summary_body(agg, budgets) ==
  [income |-> agg.income,
   expenses |-> agg.expenses,
   balance |-> agg.balance,
   spending_by_category |-> agg.spending_by_category,
   budgets |-> budgets]

get_summary(d, month) ==
  LET f == summary_month_filter(month)
  IN IF ~f.ok THEN HTTPException(400, InvalidMonth, d)
     ELSE OK(summary_body(summary_reduce(summary_txs(d, f.filter)),
                          summary_budgets(d, month)), d)

(***************************************************************************)
(* Requests the model sends.                                               *)
(***************************************************************************)
Dec2024 == <<"2", "0", "2", "4", "-", "1", "2">>
Nov2024 == <<"2", "0", "2", "4", "-", "1", "1">>
Dec9999 == <<"9", "9", "9", "9", "-", "1", "2">>
Month13 == <<"2", "0", "2", "4", "-", "1", "3">>
Abc == <<"a", "b", "c">>
Year2024 == <<"2", "0", "2", "4">>
Dec15 == <<"2", "0", "2", "4", "-", "1", "2", "-", "1", "5">>

MonthStrings == {<<>>, Dec2024, Nov2024, Dec9999, Month13, Abc, Year2024, Dec15}
MonthArgs == {None} \cup {Some(m) : m \in MonthStrings}

DateDec01 == <<"2", "0", "2", "4", "-", "1", "2", "-", "0", "1">>
DateJan01 == <<"2", "0", "2", "5", "-", "0", "1", "-", "0", "1">>
DateNov30 == <<"2", "0", "2", "4", "-", "1", "1", "-", "3", "0", "T",
               "2", "3", ":", "5", "9", ":", "5", "9">>
Garbage == <<"g", "a", "r", "b", "a", "g", "e">>

\* datetime.utcnow() at the time of the request
Clock == {datetime(2024, 12, 20, 10, 30, 0).dt}

TxBody(amount, type, category_id, date) ==
  [amount |-> amount, type |-> type, category_id |-> category_id,
   note |-> None, date |-> date]

ValidTxBodies ==
  { TxBody(F(1), "income", Some("c1"), Some(DateDec01)),
    TxBody(BIG, "income", None, Some(DateJan01)),
    TxBody(F(1), "expense", Some("c1"), Some(DateDec01)),
    TxBody(BIG, "expense", None, Some(DateNov30)),
    TxBody(F(2), "expense", Some(""), None) }

InvalidTxBodies ==
  { TxBody(F(0), "expense", Some("c1"), Some(DateDec01)),
    TxBody(F(-1), "income", None, None),
    TxBody(F(1), "transfer", None, Some(DateDec01)),
    TxBody(F(1), "expense", None, Some(Garbage)) }

TxBodies == ValidTxBodies \cup InvalidTxBodies

CategoryBodies ==
  { [name |-> "Food", has_color |-> FALSE, color |-> None],
    [name |-> "Food", has_color |-> TRUE, color |-> None],
    [name |-> "Rent", has_color |-> TRUE, color |-> Some("#ff0000")] }

BudgetBody(month, category_id, limit) ==
  [month |-> month, category_id |-> category_id, limit |-> limit]

BudgetBodies ==
  { BudgetBody(Dec2024, None, F(5)),
    BudgetBody(Dec15, Some("c1"), F(1)),
    BudgetBody(Month13, None, F(5)),
    BudgetBody(Dec2024, None, F(0)) }

\* defaults of the limit query parameters
DefaultTxLimit == 100
DefaultBudgetLimit == 200

Callers == {1, 2}

(***************************************************************************)
(* State: the store, the last response sent (with the request it answers)  *)
(* and, for summary calls that run concurrently, each caller's frame.      *)
(***************************************************************************)
EmptyDb == [category |-> <<>>, transaction |-> <<>>, budget |-> <<>>]
Idle == [pc |-> "idle"]

Init ==
  /\ db = EmptyDb
  /\ resp = Response("none", <<>>, 0, <<>>)
  /\ frames = [c \in Callers |-> Idle]

Respond(op, req, r) ==
  /\ resp' = Response(op, req, r.status, r.body)
  /\ db' = r.db
  /\ UNCHANGED frames

DoListCategories ==
  \E limit \in {None, Some(1)} :
    Respond("list_categories", [limit |-> limit], list_categories(db, limit))

DoCreateCategory ==
  \E body \in CategoryBodies :
    LET r == create_category(db, body)
    IN /\ Len(r.db.category) <= MaxCat
       /\ Respond("create_category", body, r)

DoListTransactions ==
  \E month \in MonthArgs, limit \in {Some(1), Some(DefaultTxLimit)} :
    Respond("list_transactions", [month |-> month, limit |-> limit],
            list_transactions(db, month, limit))

CreateTransactionFrom(bodies, max) ==
  \E body \in bodies, now \in Clock :
    LET r == create_transaction(db, body, now)
    IN /\ Len(r.db.transaction) <= max
       /\ Respond("create_transaction", body, r)

DoCreateTransaction == CreateTransactionFrom(TxBodies, MaxTx)

DoListBudgets ==
  \E month \in {None, Some(Dec2024), Some(Dec15)},
     limit \in {Some(1), Some(DefaultBudgetLimit)} :
    Respond("list_budgets", [month |-> month, limit |-> limit],
            list_budgets(db, month, limit))

CreateBudgetFrom(bodies) ==
  \E body \in bodies :
    LET r == create_budget(db, body)
    IN /\ Len(r.db.budget) <= MaxBud
       /\ Respond("create_budget", body, r)

DoCreateBudget == CreateBudgetFrom(BudgetBodies)

DoGetSummary ==
  \E month \in MonthArgs :
    Respond("get_summary", [month |-> month], get_summary(db, month))

\* the transaction, budget and summary handlers, one request at a time
Next ==
  \/ DoListTransactions
  \/ DoCreateTransaction
  \/ DoListBudgets
  \/ DoCreateBudget
  \/ DoGetSummary

Spec == Init /\ [][Next]_vars

\* the category handlers, one request at a time (no other handler reads or
\* writes the category collection)
NextCategories ==
  \/ DoListCategories
  \/ DoCreateCategory

SpecCategories == Init /\ [][NextCategories]_vars

(***************************************************************************)
(* Concurrent callers.  The handlers are plain functions, which the        *)
(* framework runs on worker threads: a summary call is two store calls     *)
(* (the transactions at line 214, the budgets at line 229) with the        *)
(* reduction over its own local txs in between, and creations by other     *)
(* callers may land between the two.                                       *)
(***************************************************************************)
ConcTxBodies ==
  { TxBody(F(1), "income", Some("c1"), Some(DateDec01)),
    TxBody(F(1), "expense", Some("c1"), Some(DateDec01)),
    TxBody(BIG, "expense", None, Some(DateNov30)) }

ConcBudgetBodies == {BudgetBody(Dec2024, None, F(5))}

ConcMonthArgs == {None, Some(Dec2024), Some(Abc)}

DoConcCreateTransaction == CreateTransactionFrom(ConcTxBodies, MaxTxConc)

DoConcCreateBudget == CreateBudgetFrom(ConcBudgetBodies)

\* lines 200-225 of one call: the month filter, the single fetch of the
\* transactions and the reduction over them
SummaryFetch(c) ==
  /\ frames[c].pc = "idle"
  /\ \E month \in ConcMonthArgs :
       LET f == summary_month_filter(month)
           txs == summary_txs(db, f.filter)
       IN frames' = [frames EXCEPT ![c] =
            IF ~f.ok
              THEN [pc |-> "done", month |-> month, txs |-> <<>>,
                    status |-> 400, body |-> InvalidMonth]
              ELSE [pc |-> "fetched", month |-> month, txs |-> txs,
                    agg |-> summary_reduce(txs)]]
  /\ UNCHANGED <<db, resp>>

\* lines 228-237 of the same call: the budgets and the response
SummaryBudgets(c) ==
  /\ frames[c].pc = "fetched"
  /\ frames' = [frames EXCEPT ![c] =
       [pc |-> "done", month |-> frames[c].month, txs |-> frames[c].txs,
        status |-> 200,
        body |-> summary_body(frames[c].agg, summary_budgets(db, frames[c].month))]]
  /\ UNCHANGED <<db, resp>>

\* the response has been sent; the caller may call again
SummaryReturn(c) ==
  /\ frames[c].pc = "done"
  /\ frames' = [frames EXCEPT ![c] = Idle]
  /\ UNCHANGED <<db, resp>>

NextConcurrent ==
  \/ DoConcCreateTransaction
  \/ DoConcCreateBudget
  \/ \E c \in Callers : SummaryFetch(c)
  \/ \E c \in Callers : SummaryBudgets(c)
  \/ \E c \in Callers : SummaryReturn(c)

SpecConcurrent == Init /\ [][NextConcurrent]_vars

(***************************************************************************)
(* Vocabulary of the properties, stated without the handlers' own          *)
(* definitions.                                                            *)
(***************************************************************************)
\* a YYYY-MM string: four digits, a dash, two digits naming a month 01..12
ValidYYYYMM(m) ==
  /\ Len(m) = 7
  /\ \A i \in {1, 2, 3, 4, 6, 7} : IsDigit(m[i])
  /\ m[5] = "-"
  /\ 10 * DigitVal(m[6]) + DigitVal(m[7]) \in 1..12

\* the month argument is omitted (an empty query value counts as omitted)
MonthOmitted(month) == month = None \/ month = Some(<<>>)

\* date lies in the range the month argument stands for: from the instant
\* the argument parses to, up to the end of that instant's calendar month
InMonthArg(date, month) ==
  \/ MonthOmitted(month)
  \/ LET start == fromisoformat(FirstOf(month[1])).dt
     IN /\ ~TupleLess(DtTuple(date), DtTuple(start))
        /\ ~TupleLess(<<start.year, start.month>>, <<date.year, date.month>>)

\* date lies in [first day of month M of year Y at 00:00, first day of the
\* next calendar month)
InCalendarMonth(date, Y, M) ==
  /\ ~TupleLess(DtTuple(date), <<Y, M, 1, 0, 0, 0>>)
  /\ TupleLess(DtTuple(date),
               IF M < 12 THEN <<Y, M + 1, 1, 0, 0, 0>> ELSE <<Y + 1, 1, 1, 0, 0, 0>>)

YearOf(m) == ParseInt(SubSeq(m, 1, 4))
MonthOf(m) == ParseInt(SubSeq(m, 6, 7))

\* the stored transactions a month argument selects, in store order
MatchingTxs(month) ==
  SelectSeq(db.transaction, LAMBDA t : InMonthArg(t.date, month))

\* the key under which an expense is grouped
KeyOf(t) ==
  IF t.category_id = None \/ t.category_id = Some("") THEN "uncategorized"
  ELSE t.category_id[1]

\* the amounts of the first n documents of txs, added in order
RECURSIVE SumFirst(_, _)
SumFirst(txs, n) ==
  IF n = 0 THEN F(0) ELSE FAdd(SumFirst(txs, n - 1), txs[n].amount)

SumAmounts(txs) == SumFirst(txs, Len(txs))

TotalOfType(txs, type) == SumAmounts(SelectSeq(txs, LAMBDA t : t.type = type))

TotalOfKey(txs, key) ==
  SumAmounts(SelectSeq(txs, LAMBDA t : t.type = "expense" /\ KeyOf(t) = key))

ExpenseKeys(txs) ==
  {KeyOf(txs[i]) : i \in {j \in 1..Len(txs) : txs[j].type = "expense"}}

IdsOf(docs) == {IntStr(docs[i]._id) : i \in 1..Len(docs)}
ListedIds(records) == {records[i].id : i \in 1..Len(records)}

IsSummary == resp.op = "get_summary" /\ resp.status = 200

\* C1: a summary's income is the sum of the amounts of the selected income
\* transactions, its expenses the sum over the selected expense transactions,
\* its balance income - expenses, over every stored transaction the month
\* argument selects (all of them when the month is omitted), however many;
\* when none is selected all three are 0 and spending_by_category is empty.
\* Sums are the store-order float additions the summary performs.
C1_SummaryTotals ==
  IsSummary =>
    LET txs == MatchingTxs(resp.req.month)
        income == TotalOfType(txs, "income")
        expenses == TotalOfType(txs, "expense")
    IN /\ resp.body.income = income
       /\ resp.body.expenses = expenses
       /\ resp.body.balance = FSub(income, expenses)
       /\ txs = <<>> =>
            /\ resp.body.income = F(0)
            /\ resp.body.expenses = F(0)
            /\ resp.body.balance = F(0)
            /\ resp.body.spending_by_category = <<>>

C1_Witness ==
  /\ IsSummary
  /\ resp.req.month = Some(Dec2024)
  /\ Len(MatchingTxs(resp.req.month)) = 1
  /\ Len(db.transaction) = 2
  /\ resp.body.income = F(1)

\* C2: spending_by_category has exactly one entry for each key of a selected
\* expense transaction, holding the sum of the amounts of the selected
\* expenses with that key; the key is the category_id when it is present and
\* non-empty, "uncategorized" when it is absent, null or empty; income
\* transactions add neither a key nor an amount.
C2_SpendingByCategory ==
  IsSummary =>
    LET txs == MatchingTxs(resp.req.month)
        sp == resp.body.spending_by_category
    IN /\ \A i, j \in 1..Len(sp) : sp[i].k = sp[j].k => i = j
       /\ {sp[i].k : i \in 1..Len(sp)} = ExpenseKeys(txs)
       /\ \A i \in 1..Len(sp) : sp[i].v = TotalOfKey(txs, sp[i].k)

C2_Witness ==
  /\ IsSummary
  /\ resp.req.month = Some(Dec2024)
  /\ {resp.body.spending_by_category[i].k :
        i \in 1..Len(resp.body.spending_by_category)} = {"c1", "uncategorized"}
  /\ \E i \in 1..Len(db.transaction) : db.transaction[i].category_id = Some("")

InRangeTxs(m) ==
  SelectSeq(db.transaction,
            LAMBDA t : InCalendarMonth(t.date, YearOf(m), MonthOf(m)))

FirstN(docs, n) == IF n >= Len(docs) THEN docs ELSE SubSeq(docs, 1, n)

\* C3: for every valid YYYY-MM month string the listing and the summary
\* select by the half-open range from the first day of that month at 00:00
\* to the first day of the next calendar month (January of the next year
\* after December): a transaction dated at the start is in, one dated at the
\* end is out.
C3_MonthRange ==
  (/\ resp.op \in {"list_transactions", "get_summary"}
   /\ resp.req.month /= None
   /\ ValidYYYYMM(resp.req.month[1])) =>
    LET txs == InRangeTxs(resp.req.month[1])
    IN /\ resp.status = 200
       /\ resp.op = "list_transactions" =>
            ListedIds(resp.body) = IdsOf(FirstN(txs, resp.req.limit[1]))
       /\ resp.op = "get_summary" =>
            /\ resp.body.income = TotalOfType(txs, "income")
            /\ resp.body.expenses = TotalOfType(txs, "expense")

\* C4: a supplied month string that is not a valid YYYY-MM value is answered
\* with 400 "Invalid month format" by the transaction listing, the budget
\* creation and the summary.
C4_InvalidMonthRejected ==
  /\ (/\ resp.op \in {"list_transactions", "get_summary"}
      /\ ~MonthOmitted(resp.req.month)
      /\ ~ValidYYYYMM(resp.req.month[1])) =>
       (resp.status = 400 /\ resp.body = InvalidMonth)
  /\ (resp.op = "create_budget" /\ ~ValidYYYYMM(resp.req.month)) =>
       (resp.status = 400 /\ resp.body = InvalidMonth)

\* C5: a creation request that violates a schema constraint (amount <= 0 or
\* a type other than income and expense for a transaction, limit <= 0 for a
\* budget) is answered with a client error (4xx), not a server error.
C5_SchemaViolationIsClientError ==
  /\ (/\ resp.op = "create_transaction"
      /\ (~FGt0(resp.req.amount) \/ resp.req.type \notin {"income", "expense"})) =>
       resp.status \in 400..499
  /\ (resp.op = "create_budget" /\ ~FGt0(resp.req.limit)) =>
       resp.status \in 400..499

\* C6: every stored transaction has amount > 0, and every stored budget has
\* limit > 0 and a month that is a valid YYYY-MM.
C6_StoredDocumentsValid ==
  /\ \A i \in 1..Len(db.transaction) : FGt0(db.transaction[i].amount)
  /\ \A i \in 1..Len(db.budget) :
       FGt0(db.budget[i].limit) /\ ValidYYYYMM(db.budget[i].month)

\* C7: every stored category has a non-null color.
C7_ColorNeverNull ==
  \A i \in 1..Len(db.category) : db.category[i].color /= None

AllCategories(d) == list_categories(d, None).body

CountId(records, id) == Cardinality({i \in 1..Len(records) : records[i].id = id})

\* C8: once a category has been created, every later unlimited listing holds
\* exactly one record with the id its creation returned, with the name and
\* colour given at creation: a creation is listed at once under the returned
\* id, and no step changes or removes a listed record.
C8_CreatedCategoryStays ==
  [][/\ \A i \in 1..Len(AllCategories(db)) :
          /\ CountId(AllCategories(db'), AllCategories(db)[i].id) = 1
          /\ \E j \in 1..Len(AllCategories(db')) :
               AllCategories(db')[j] = AllCategories(db)[i]
     /\ (resp'.op = "create_category" /\ resp'.status = 200) =>
          /\ CountId(AllCategories(db'), resp'.body.id) = 1
          /\ \E j \in 1..Len(AllCategories(db')) :
               /\ AllCategories(db')[j].id = resp'.body.id
               /\ AllCategories(db')[j].name = resp'.req.name
               /\ AllCategories(db')[j].color =
                    (IF resp'.req.has_color THEN resp'.req.color
                     ELSE Some("#60a5fa"))]_vars

C8_Witness ==
  /\ resp.op = "list_categories"
  /\ resp.req.limit = None
  /\ Len(resp.body) = 3
  /\ resp.body[1].id /= resp.body[2].id
  /\ \E i \in 1..3 : resp.body[i].color = Some("#ff0000")

\* C9: the listing and the summary treat a month argument alike: each
\* rejects it exactly when the other does, every transaction the listing
\* returns for it is one the summary aggregates for it, and the two sets are
\* equal when the limit is not below the number of selected transactions.
C9_ListingAgreesWithSummary ==
  \A month \in MonthArgs, limit \in {1, DefaultTxLimit} :
    LET l == list_transactions(db, month, Some(limit))
        s == get_summary(db, month)
        f == summary_month_filter(month)
        txs == summary_txs(db, f.filter)
    IN /\ (l.status = 400) <=> (s.status = 400)
       /\ l.status \in {200, 400} /\ s.status \in {200, 400}
       /\ l.status = 200 =>
            /\ ListedIds(l.body) \subseteq IdsOf(txs)
            /\ Len(txs) <= limit => ListedIds(l.body) = IdsOf(txs)
            /\ s.body.income = TotalOfType(txs, "income")
            /\ s.body.expenses = TotalOfType(txs, "expense")

C9_Witness ==
  /\ resp.op = "list_transactions"
  /\ resp.status = 200
  /\ resp.req.month = Some(Dec2024)
  /\ resp.req.limit = Some(1)
  /\ Len(resp.body) = 1
  /\ Len(MatchingTxs(Some(Dec2024))) = 2

\* a summary call that has fetched and reduced, or has answered 200
Reduced(c) ==
  \/ frames[c].pc = "fetched"
  \/ frames[c].pc = "done" /\ frames[c].status = 200

Aggregates(c) == IF frames[c].pc = "fetched" THEN frames[c].agg ELSE frames[c].body

\* txs is what one fetch returned at some moment of the store's history: the
\* documents the month argument selects among the first n stored, for some n
OneFetch(txs, month) ==
  \E n \in 0..Len(db.transaction) :
    txs = SelectSeq(SubSeq(db.transaction, 1, n), LAMBDA t : InMonthArg(t.date, month))

ValuesOf(dict) == [i \in 1..Len(dict) |-> [amount |-> dict[i].v]]

RECURSIVE ExactTotal(_, _)
ExactTotal(S, txs) ==
  IF S = {} THEN [h |-> 0, l |-> 0]
  ELSE LET i == CHOOSE j \in S : TRUE
           rest == ExactTotal(S \ {i}, txs)
       IN [h |-> rest.h + txs[i].amount.h, l |-> rest.l + txs[i].amount.l]

\* no addition of expense amounts of txs rounds: the exact total of every
\* sub-collection of them is a float
NoRounding(txs) ==
  LET ex == SelectSeq(txs, LAMBDA t : t.type = "expense")
  IN \A S \in SUBSET (1..Len(ex)) :
       LET v == ExactTotal(S, ex) IN FRound(v.h, v.l) = v

DerivedFromOneFetch(c) ==
  LET a == Aggregates(c)
      txs == frames[c].txs
  IN /\ OneFetch(txs, frames[c].month)
     /\ a.income = TotalOfType(txs, "income")
     /\ a.expenses = TotalOfType(txs, "expense")
     /\ a.balance = FSub(a.income, a.expenses)
     /\ \A i \in 1..Len(a.spending_by_category) :
          a.spending_by_category[i].v = TotalOfKey(txs, a.spending_by_category[i].k)

\* C10 (as stated): every summary response, under any interleaving with
\* creations and other summary calls, is computed from one single fetch of
\* the transactions, so that balance = income - expenses and the values of
\* spending_by_category sum to expenses.
C10_SpendingSumsToExpenses ==
  \A c \in Callers :
    Reduced(c) =>
      /\ DerivedFromOneFetch(c)
      /\ SumAmounts(ValuesOf(Aggregates(c).spending_by_category)) = Aggregates(c).expenses

\* C10 (amended): every summary response, under any interleaving with
\* creations and other summary calls, is computed from one single fetch of
\* the transactions: income, expenses and each value of spending_by_category
\* are the sums over that fetch, balance = income - expenses, and the values
\* of spending_by_category sum to expenses whenever no addition of the fetched
\* expense amounts rounds.
C10_ConsistentSummary ==
  \A c \in Callers :
    Reduced(c) =>
      /\ DerivedFromOneFetch(c)
      /\ NoRounding(frames[c].txs) =>
           SumAmounts(ValuesOf(Aggregates(c).spending_by_category)) = Aggregates(c).expenses

C10_Witness ==
  /\ frames[1].pc = "done"
  /\ frames[1].status = 200
  /\ frames[1].body.spending_by_category /= <<>>
  /\ Len(frames[1].txs) < Len(MatchingTxs(frames[1].month))
  /\ frames[2].pc = "fetched"
  /\ frames[2].txs /= frames[1].txs
  /\ frames[2].agg.income /= frames[1].body.income

====
